---------------------------- MODULE Spec2Model ----------------------------
(***************************************************************************)
(* Employee Salary Management System (employee_salary_system.py).          *)
(*                                                                         *)
(* The model covers the EmployeeSalaryManagement object (its connection    *)
(* and its DataFrame df_employees), the collaborators it talks to (the     *)
(* MySQL table "employees", the connections the server holds, the          *)
(* salary_slips directory, the aggregate report file, the console and the  *)
(* wall clock) and the function main().                                    *)
(*                                                                         *)
(* Units: the table holds DECIMAL values, kept as integers: money in cents *)
(* (0.10 is 10, 62000.00 is 6200000) and a percentage in whole percents    *)
(* (14.00 is 14).  The columns of the DataFrame hold float64 values, kept  *)
(* exactly, as a sign, a 53-bit integer and a power of two; the arithmetic *)
(* of calculate_salary_components and of display_salary_summary is float64 *)
(* arithmetic, each operation rounded to the nearest float64.              *)
(*                                                                         *)
(* Three specifications.  Spec: the methods of the object, called in any   *)
(* order, MaxCalls times at most, on a new object.  ExportSpec:            *)
(* generate_salary_slips, export_complete_report and                       *)
(* display_salary_summary, in any order, on an object that has connected,  *)
(* fetched and derived.  MainSpec: one run of main(), any print of which   *)
(* may raise.                                                              *)
(***************************************************************************)
EXTENDS Integers, Sequences, FiniteSets, TLC

VARIABLES
    connection,     \* self.connection: NoConn (None) or a connection handle
    df_employees,   \* self.df_employees: NoneDF (None) or a DataFrame
    table,          \* the rows of the table employees, in employee_id order
    connOpen,       \* the handles of the connections the server holds open
    nOpened,        \* how many connections were opened so far
    dirExists,      \* whether the directory salary_slips exists
    files,          \* the files of salary_slips: file name -> CSV rows
    report,         \* complete_salary_report.csv
    summary,        \* the SALARY STATISTICS lines the last call printed
    clock,          \* datetime.now(), in seconds
    last,           \* the last method call: its name and what it returned
    repeated,       \* the call before it was the same method and returned the same
    written,        \* the slip files the last call wrote, in order
    pc,             \* main(): the step to perform next
    log,            \* main(): the method calls made so far, in order
    nCalls          \* Spec: how many method calls were made on the object

vars == <<connection, df_employees, table, connOpen, nOpened, dirExists, files,
          report, summary, clock, last, repeated, written, pc, log, nCalls>>

---------------------------------------------------------------------------
(* Bounds of the model *)

\* The table employees holds at most MaxEmp rows.
MaxEmp == 3

\* The clock runs from 0 to MaxClock.
MaxClock == 1

\* Spec: the table holds at most MaxRows rows, and at most MaxCalls method
\* calls are made on the object.
MaxRows == 1

MaxCalls == 5

(* Inputs: the values a row of the table is made of *)
Names == {"Alex Johnson"}

\* <<basic_salary, bonus_percentage, tax_percentage>> of a row.  A run of
\* main() starts from rows of 0.10 at 4% bonus and 6% tax or at 5% and 5%,
\* or of 62000.00 at 4% and 6% or at 14% and 19%; the rows of an object
\* under arbitrary calls are 0.10 at 4% and 6%, and differ in their ids alone.
Profiles == {<<10, 4, 6>>, <<10, 5, 5>>, <<6200000, 4, 6>>, <<6200000, 14, 19>>}
ObjectProfiles == {<<10, 4, 6>>}

---------------------------------------------------------------------------
(* Values *)

NoConn == 0

NoneDF == [present |-> FALSE, columns |-> <<>>, rows |-> <<>>]

NoReport == [exists |-> FALSE, rows |-> <<>>]

RawColumns == <<"employee_id", "name", "basic_salary", "bonus_percentage", "tax_percentage">>

DerivedColumns == <<"bonus", "tax", "net_salary">>

\* What a method returns: True, False, None, the DataFrame ("df"), an
\* employee id ("id", with the id), or an exception that escapes ("raise").
Ret(v, n) == [v |-> v, n |-> n]
RTrue == Ret("True", 0)
RFalse == Ret("False", 0)
RNone == Ret("None", 0)
RDF == Ret("df", 0)
RRaise == Ret("raise", 0)

NoCall == [op |-> "none", ret |-> RNone]

Range(s) == {s[i] : i \in DOMAIN s}

HasColumn(df, c) == c \in Range(df.columns)

\* The rows a SELECT ... ORDER BY employee_id returns.
StoreRow(id, name, basic, bp, tp) ==
    [employee_id |-> id, name |-> name, basic_salary |-> basic,
     bonus_percentage |-> bp, tax_percentage |-> tp]

\* The tables of n rows: ids 1..n, assigned by the store in insertion order.
Tables(n, profiles) ==
    {t \in [1..n -> {StoreRow(id, name, p[1], p[2], p[3]) :
                        id \in 1..n, name \in Names, p \in profiles}] :
        \A i \in 1..n : t[i].employee_id = i}

---------------------------------------------------------------------------
(* float64: the numbers of the DataFrame columns *)

\* A natural number of any size: its digits in base Base, the lowest first,
\* the highest not 0.  read_sql turns a DECIMAL column into float64, and a
\* float64 is a 53-bit integer times a power of two; what a column operation
\* stores is the exact result rounded to the nearest float64, a tie going to
\* the even one.
LimbBits == 14
Base == 16384
MantBits == 53

RECURSIVE Pow2(_)
Pow2(n) == IF n = 0 THEN 1 ELSE 2 * Pow2(n - 1)

RECURSIVE BitLenSmall(_)
BitLenSmall(x) == IF x = 0 THEN 0 ELSE 1 + BitLenSmall(x \div 2)

RECURSIVE BigTrim(_)
BigTrim(a) ==
    IF a = <<>> THEN a
    ELSE IF a[Len(a)] = 0 THEN BigTrim(SubSeq(a, 1, Len(a) - 1))
    ELSE a

RECURSIVE BigFromInt(_)
BigFromInt(n) == IF n = 0 THEN <<>> ELSE <<n % Base>> \o BigFromInt(n \div Base)

RECURSIVE BigToInt(_)
BigToInt(a) == IF a = <<>> THEN 0 ELSE a[1] + Base * BigToInt(Tail(a))

Limb(a, i) == IF i <= Len(a) THEN a[i] ELSE 0

Rest(a) == IF a = <<>> THEN a ELSE Tail(a)

RECURSIVE BigAddC(_, _, _)
BigAddC(a, b, c) ==
    IF a = <<>> /\ b = <<>> THEN (IF c = 0 THEN <<>> ELSE <<c>>)
    ELSE LET s == Limb(a, 1) + Limb(b, 1) + c
         IN  <<s % Base>> \o BigAddC(Rest(a), Rest(b), s \div Base)

BigAdd(a, b) == BigAddC(a, b, 0)

\* a - b - c, for a >= b + c.
RECURSIVE BigSubB(_, _, _)
BigSubB(a, b, c) ==
    IF a = <<>> THEN <<>>
    ELSE LET d == a[1] - Limb(b, 1) - c
         IN  <<IF d < 0 THEN d + Base ELSE d>> \o BigSubB(Tail(a), Rest(b), IF d < 0 THEN 1 ELSE 0)

BigSub(a, b) == BigTrim(BigSubB(a, b, 0))

\* -1, 0, 1 as a is below, equal to, above b.
RECURSIVE BigCmp(_, _)
BigCmp(a, b) ==
    IF Len(a) # Len(b) THEN (IF Len(a) < Len(b) THEN -1 ELSE 1)
    ELSE IF a = <<>> THEN 0
    ELSE IF a[Len(a)] # b[Len(b)] THEN (IF a[Len(a)] < b[Len(b)] THEN -1 ELSE 1)
    ELSE BigCmp(SubSeq(a, 1, Len(a) - 1), SubSeq(b, 1, Len(b) - 1))

\* a * k + c, for k and c below Base.
RECURSIVE BigMulSmallC(_, _, _)
BigMulSmallC(a, k, c) ==
    IF a = <<>> THEN (IF c = 0 THEN <<>> ELSE <<c>>)
    ELSE LET p == a[1] * k + c
         IN  <<p % Base>> \o BigMulSmallC(Tail(a), k, p \div Base)

BigMulSmall(a, k) == IF k = 0 THEN <<>> ELSE BigMulSmallC(a, k, 0)

\* a * Base^n
ShiftLimbs(a, n) == IF a = <<>> THEN <<>> ELSE [i \in 1..n |-> 0] \o a

RECURSIVE BigMul(_, _)
BigMul(a, b) ==
    IF b = <<>> THEN <<>>
    ELSE BigAdd(BigMulSmall(a, b[1]), ShiftLimbs(BigMul(a, Tail(b)), 1))

\* Quotient and remainder of a by d, for 0 < d < Base; r is the remainder
\* carried down from the digits above.
RECURSIVE BigDivSmallR(_, _, _)
BigDivSmallR(a, d, r) ==
    IF a = <<>> THEN [q |-> <<>>, r |-> r]
    ELSE LET cur == r * Base + a[Len(a)]
             low == BigDivSmallR(SubSeq(a, 1, Len(a) - 1), d, cur % d)
         IN  [q |-> low.q \o <<cur \div d>>, r |-> low.r]

BigDivSmall(a, d) ==
    LET x == BigDivSmallR(a, d, 0)
    IN  [q |-> BigTrim(x.q), r |-> x.r]

BigBitLen(a) == IF a = <<>> THEN 0 ELSE (Len(a) - 1) * LimbBits + BitLenSmall(a[Len(a)])

BigShl(a, n) == ShiftLimbs(BigMulSmall(a, Pow2(n % LimbBits)), n \div LimbBits)

BigShr(a, n) ==
    LET q == n \div LimbBits
        high == IF q >= Len(a) THEN <<>> ELSE SubSeq(a, q + 1, Len(a))
    IN  BigDivSmall(high, Pow2(n % LimbBits)).q

BigOdd(a) == a # <<>> /\ a[1] % 2 = 1

\* x / 2^s to the nearest integer, a tie to the even one; sticky: the exact
\* value is a little above x.
BigRoundShr(x, s, sticky) ==
    IF s = 0 THEN x
    ELSE LET q == BigShr(x, s)
             rem == BigSub(x, BigShl(q, s))
             c == BigCmp(rem, BigShl(<<1>>, s - 1))
         IN  IF c > 0 \/ (c = 0 /\ (sticky \/ BigOdd(q))) THEN BigAdd(q, <<1>>) ELSE q

\* The float64 (-1)^sign * m * 2^e, m of MantBits bits, or 0.
Float(sign, m, e) == [nan |-> FALSE, sign |-> sign, m |-> m, e |-> e]

FZero == Float(0, <<>>, 0)

NaN == [nan |-> TRUE, sign |-> 0, m |-> <<>>, e |-> 0]

\* The float64 nearest to (-1)^sign * x * 2^e (a little above it when sticky;
\* x has then more than MantBits + 1 bits).
FRound(sign, x, e, sticky) ==
    IF x = <<>> THEN FZero
    ELSE LET l == BigBitLen(x)
         IN  IF l <= MantBits THEN Float(sign, BigShl(x, MantBits - l), e - (MantBits - l))
             ELSE LET q == BigRoundShr(x, l - MantBits, sticky)
                  IN  IF BigBitLen(q) > MantBits
                      THEN Float(sign, BigShr(q, 1), e + (l - MantBits) + 1)
                      ELSE Float(sign, q, e + (l - MantBits))

\* float(Decimal): the float64 nearest to n / d, for 0 < d < Base.
FromRatio(n, d) ==
    LET qr == BigDivSmall(ShiftLimbs(BigFromInt(IF n < 0 THEN -n ELSE n), 5), d)
    IN  FRound(IF n < 0 THEN 1 ELSE 0, qr.q, -(5 * LimbBits), qr.r # 0)

\* x / d, for an integer 0 < d < Base.
FDivSmall(x, d) ==
    LET qr == BigDivSmall(ShiftLimbs(x.m, 2), d)
    IN  IF x.nan THEN NaN ELSE FRound(x.sign, qr.q, x.e - 2 * LimbBits, qr.r # 0)

\* x * k, for an integer 0 <= k < Base.
FMulSmall(x, k) == IF x.nan THEN NaN ELSE FRound(x.sign, BigMulSmall(x.m, k), x.e, FALSE)

FMul(x, y) ==
    IF x.nan \/ y.nan THEN NaN
    ELSE FRound((x.sign + y.sign) % 2, BigMul(x.m, y.m), x.e + y.e, FALSE)

FNeg(x) == IF x.nan \/ x.m = <<>> THEN x ELSE Float(1 - x.sign, x.m, x.e)

FAdd(x, y) ==
    IF x.nan \/ y.nan THEN NaN
    ELSE IF x.m = <<>> THEN y
    ELSE IF y.m = <<>> THEN x
    ELSE LET e == IF x.e < y.e THEN x.e ELSE y.e
             a == BigShl(x.m, x.e - e)
             b == BigShl(y.m, y.e - e)
             c == BigCmp(a, b)
         IN  IF x.sign = y.sign THEN FRound(x.sign, BigAdd(a, b), e, FALSE)
             ELSE IF c = 0 THEN FZero
             ELSE IF c > 0 THEN FRound(x.sign, BigSub(a, b), e, FALSE)
             ELSE FRound(y.sign, BigSub(b, a), e, FALSE)

FSub(x, y) == FAdd(x, FNeg(y))

\* |x * k| to the nearest integer, a tie to the even one, for a float64 x and
\* an integer 0 < k < Base: the product is not rounded before the result is.
NearestInt(x, k) ==
    LET p == BigMulSmall(x.m, k)
    IN  IF x.e >= 0 THEN BigShl(p, x.e) ELSE BigRoundShr(p, -x.e, FALSE)

\* numpy.rint
FRint(x) == IF x.nan THEN NaN ELSE FRound(x.sign, NearestInt(x, 1), 0, FALSE)

\* Series.round(2): numpy multiplies by 100.0, takes rint and divides by 100.0.
Round2(x) == FDivSmall(FRint(FMulSmall(x, 100)), 100)

\* What f"{x:,.2f}" prints: the hundredths of the decimal nearest to x, or nan.
Num(v) == [nan |-> FALSE, v |-> v]
NaNText == [nan |-> TRUE, v |-> 0]

Format2(x) ==
    IF x.nan THEN NaNText
    ELSE Num((IF x.sign = 1 THEN -1 ELSE 1) * BigToInt(NearestInt(x, 100)))

---------------------------------------------------------------------------
(* calculate_salary_components: the statements of lines 83-94 *)

\* The row with the value v in its column c.
SetCol(row, c, v) == (c :> v) @@ row

\* Line 83: basic_salary * (bonus_percentage / 100)
Bonus(r) == FMul(r.basic_salary, FDivSmall(r.bonus_percentage, 100))

\* Line 86: basic_salary * (tax_percentage / 100)
Tax(r) == FMul(r.basic_salary, FDivSmall(r.tax_percentage, 100))

\* Line 89: basic_salary + bonus - tax, of the bonus and the tax that lines 83
\* and 86 stored; they are rounded later, at lines 92-93.
NetSalary(r) == FSub(FAdd(r.basic_salary, r.bonus), r.tax)

\* Lines 92-94
RoundedBonus(r) == Round2(r.bonus)

RoundedTax(r) == Round2(r.tax)

RoundedNetSalary(r) == Round2(r.net_salary)

\* The try block holds CalcStatements statements, at lines 83, 86, 89, 92,
\* 93 and 94.
CalcStatements == 6

\* The column the j-th statement assigns, and the value it gives it in a row.
AssignedColumn == <<"bonus", "tax", "net_salary", "bonus", "tax", "net_salary">>

AssignedValue(r, j) ==
    CASE j = 1 -> Bonus(r)
      [] j = 2 -> Tax(r)
      [] j = 3 -> NetSalary(r)
      [] j = 4 -> RoundedBonus(r)
      [] j = 5 -> RoundedTax(r)
      [] j = 6 -> RoundedNetSalary(r)

RowAfter(r, j) == SetCol(r, AssignedColumn[j], AssignedValue(r, j))

\* The rows after the j-th statement, row by row.
RECURSIVE RowsAfter(_, _)
RowsAfter(rows, j) ==
    IF rows = <<>> THEN <<>> ELSE <<RowAfter(Head(rows), j)>> \o RowsAfter(Tail(rows), j)

\* df[c] = ...: a column the frame has keeps its place, a new one goes last.
Statement(df, j) ==
    [present |-> TRUE,
     columns |-> IF HasColumn(df, AssignedColumn[j]) THEN df.columns
                 ELSE Append(df.columns, AssignedColumn[j]),
     rows |-> RowsAfter(df.rows, j)]

\* The frames the first k statements leave, one after the other: the frame
\* they are given, then the frame after each of them.
RECURSIVE RunStatements(_, _)
RunStatements(df, k) ==
    IF k = 0 THEN <<df>>
    ELSE LET before == RunStatements(df, k - 1)
         IN  Append(before, Statement(before[k], k))

DerivedFrame(df) == RunStatements(df, CalcStatements)[CalcStatements + 1]

DerivedRow(r) == DerivedFrame([present |-> TRUE, columns |-> <<>>, rows |-> <<r>>]).rows[1]

---------------------------------------------------------------------------
(* What every method call records *)

Returns(op, r) ==
    /\ last' = [op |-> op, ret |-> r]
    /\ repeated' = (last = [op |-> op, ret |-> r])

\* The call prints no statistics and writes no slip.
NoSummary == <<>>

NoOutput(op) ==
    /\ IF op = "display_salary_summary" THEN TRUE ELSE summary' = NoSummary
    /\ IF op = "generate_salary_slips" THEN TRUE ELSE written' = <<>>

---------------------------------------------------------------------------
(* connect_database *)

\* mysql.connector.connect: a new connection, or mysql.connector.Error.
ConnectOutcomes == {"ok", "error"}

DoConnect(o) ==
    IF o = "ok"
    THEN /\ connection' = nOpened + 1
         /\ connOpen' = connOpen \cup {nOpened + 1}
         /\ nOpened' = nOpened + 1
    ELSE UNCHANGED <<connection, connOpen, nOpened>>

connect_database(o) ==
    /\ DoConnect(o)
    /\ Returns("connect_database", IF o = "ok" THEN RTrue ELSE RFalse)
    /\ NoOutput("connect_database")
    /\ UNCHANGED <<df_employees, table, dirExists, files, report, clock>>

---------------------------------------------------------------------------
(* fetch_employee_data *)

\* pd.read_sql: the rows of the table, or an exception.
QueryOutcomes == {"ok", "error"}

\* read_sql turns the DECIMAL values of a row into float64.
FetchedRow(r) ==
    [employee_id |-> r.employee_id, name |-> r.name,
     basic_salary |-> FromRatio(r.basic_salary, 100),
     bonus_percentage |-> FromRatio(r.bonus_percentage, 1),
     tax_percentage |-> FromRatio(r.tax_percentage, 1)]

\* The rows of the result set, row by row.
RECURSIVE FetchedRows(_)
FetchedRows(t) == IF t = <<>> THEN <<>> ELSE <<FetchedRow(Head(t))>> \o FetchedRows(Tail(t))

\* A faulty variant: the fetch refreshes the rows and keeps the columns of the old frame.
FetchedFrameKeepingColumns(t) ==
    IF df_employees.present /\ Len(df_employees.columns) > Len(RawColumns)
    THEN DerivedFrame([present |-> TRUE, columns |-> RawColumns, rows |-> FetchedRows(t)])
    ELSE [present |-> TRUE, columns |-> RawColumns, rows |-> FetchedRows(t)]

FetchedFrame(t) == [present |-> TRUE, columns |-> RawColumns, rows |-> FetchedRows(t)]

\* The query runs on self.connection, and fails on a connection that is closed.
QueryRuns(conn, open, q) == conn \in open /\ q = "ok"

fetch_employee_data(o, q) ==
    /\ IF connection = NoConn THEN DoConnect(o) ELSE UNCHANGED <<connection, connOpen, nOpened>>
    /\ IF connection' = NoConn
       THEN /\ Returns("fetch_employee_data", RNone)
            /\ UNCHANGED df_employees
       ELSE IF QueryRuns(connection', connOpen', q)
       THEN /\ df_employees' = FetchedFrame(table)
            /\ Returns("fetch_employee_data", RDF)
       ELSE /\ Returns("fetch_employee_data", RNone)
            /\ UNCHANGED df_employees
    /\ NoOutput("fetch_employee_data")
    /\ UNCHANGED <<table, dirExists, files, report, clock>>

---------------------------------------------------------------------------
(* calculate_salary_components *)

\* raisedAt: 0, no statement raises; j in 1..CalcStatements, the j-th
\* statement raises.  The statements before it have assigned their columns
\* to self.df_employees, and the except clause undoes nothing.
calculate_salary_components ==
    /\ IF ~df_employees.present
       THEN /\ Returns("calculate_salary_components", RNone)
            /\ UNCHANGED df_employees
       ELSE \E frames \in {RunStatements(df_employees, CalcStatements)} :
                \E raisedAt \in 0..CalcStatements :
                  IF raisedAt = 0
                  THEN /\ df_employees' = frames[CalcStatements + 1]
                       /\ Returns("calculate_salary_components", RDF)
                  ELSE /\ df_employees' = frames[raisedAt]
                       /\ Returns("calculate_salary_components", RNone)
    /\ NoOutput("calculate_salary_components")
    /\ UNCHANGED <<connection, table, connOpen, nOpened, dirExists, files, report, clock>>

---------------------------------------------------------------------------
(* generate_salary_slips *)

\* str() of an employee id: its decimal digits.
RECURSIVE Str(_)
Str(n) == IF n < 10 THEN <<n>> ELSE Str(n \div 10) \o <<n % 10>>

\* f"{percentage}%"
FormatPercent(p) == <<p, "%">>

\* A faulty variant: the file name leaves the employee id out.
SlipNameNoId(employee) == <<"salary_slip_", <<>>, ".csv">>

SlipName(employee) == <<"salary_slip_", Str(employee.employee_id), ".csv">>

SlipRow(employee, ts) ==
    [Employee_ID |-> employee.employee_id,
     Name |-> employee.name,
     Basic_Salary |-> employee.basic_salary,
     Bonus_Percentage |-> FormatPercent(employee.bonus_percentage),
     Bonus_Amount |-> employee.bonus,
     Tax_Percentage |-> FormatPercent(employee.tax_percentage),
     Tax_Amount |-> employee.tax,
     Net_Salary |-> employee.net_salary,
     Generated_Date |-> ts]

\* DataFrame.to_csv(path, index=False) opens the file for writing: whatever
\* the file held is gone, it holds the new rows.
\* A faulty variant: the file is opened for appending.
CsvAppended(old, rows) == old \o rows

CsvContent(old, rows) == rows

WriteCsv(fs, name, rows) ==
    [n \in DOMAIN fs \cup {name} |->
        IF n = name THEN CsvContent(IF name \in DOMAIN fs THEN fs[name] ELSE <<>>, rows)
        ELSE fs[n]]

\* A faulty variant: the loop carries on after a pass that raised, and writes the slips
\* of the records after it.
SlipsWrittenPastFailure(fs, rows, ts, k) ==
    LET RECURSIVE Upto(_)
        Upto(j) == IF j = 0 THEN fs
                   ELSE IF j = k + 1 THEN Upto(j - 1)
                   ELSE [n \in DOMAIN Upto(j - 1) \cup {<<"salary_slip_", Str(rows[j].employee_id), ".csv">>} |->
                            IF n = <<"salary_slip_", Str(rows[j].employee_id), ".csv">>
                            THEN <<SlipRow(rows[j], ts[j])>>
                            ELSE Upto(j - 1)[n]]
    IN  Upto(Len(rows))

\* The directory after the first k passes of the loop of lines 115-138.
RECURSIVE SlipsWritten(_, _, _, _)
SlipsWritten(fs, rows, ts, k) ==
    IF k = 0 THEN fs
    ELSE WriteCsv(SlipsWritten(fs, rows, ts, k - 1), SlipName(rows[k]),
                  <<SlipRow(rows[k], ts[k])>>)

\* employee['bonus'] raises KeyError on a frame without the derived columns.
HasDerivedColumns(df) == \A c \in Range(DerivedColumns) : HasColumn(df, c)

\* How many slips the loop writes in full: none when the first record raises
\* KeyError, failAt - 1 when to_csv raises on record failAt, else every one.
SlipsDone(df, failAt) ==
    IF Len(df.rows) >= 1 /\ ~HasDerivedColumns(df) THEN 0
    ELSE IF failAt \in 1..Len(df.rows) THEN failAt - 1
    ELSE Len(df.rows)

\* failAt: 0, os.makedirs raises; k in 1..n, to_csv raises on the k-th record;
\* n + 1, no file operation raises.  partial: the file to_csv raised on was
\* already created (and is empty).  tickAt: the clock advances by a second
\* after the tickAt-th record.
generate_salary_slips(failAt, partial, tickAt) ==
    LET df == df_employees
        n == Len(df.rows)
        done == SlipsDone(df, failAt)
        ts == [i \in 1..n |-> IF i > tickAt THEN clock + 1 ELSE clock]
        raised == done < n
        full == SlipsWritten(files, df.rows, ts, done)
    IN  /\ IF ~df.present
           THEN /\ Returns("generate_salary_slips", RFalse)
                /\ written' = <<>>
                /\ UNCHANGED <<dirExists, files, clock>>
           ELSE IF ~dirExists /\ failAt = 0
           THEN /\ Returns("generate_salary_slips", RFalse)
                /\ written' = <<>>
                /\ UNCHANGED <<dirExists, files, clock>>
           ELSE /\ dirExists' = TRUE
                /\ files' = IF raised /\ HasDerivedColumns(df) /\ partial
                            THEN WriteCsv(full, SlipName(df.rows[done + 1]), <<>>)
                            ELSE full
                /\ written' = [i \in 1..done |-> SlipName(df.rows[i])]
                /\ clock' = IF done > tickAt THEN clock + 1 ELSE clock
                /\ Returns("generate_salary_slips", IF raised THEN RFalse ELSE RTrue)
        /\ NoOutput("generate_salary_slips")
        /\ UNCHANGED <<connection, df_employees, table, connOpen, nOpened, report>>

---------------------------------------------------------------------------
(* display_salary_summary *)

\* Series.sum of a column over the first k rows: the values are added in
\* order, from 0.0.
RECURSIVE SumCol(_, _, _)
SumCol(rows, col, k) ==
    IF k = 0 THEN FZero ELSE FAdd(SumCol(rows, col, k - 1), rows[k][col])

\* Series.mean: the sum over the count, and nan for a column of no rows.
Mean(rows, col) ==
    IF Len(rows) = 0 THEN NaN
    ELSE FDivSmall(SumCol(rows, col, Len(rows)), Len(rows))

Line(label, value) == [label |-> label, value |-> value]

\* Lines 160-165 print StatLines lines of statistics.
StatLines == 6

\* The column each of them reads; the first is len(df) and reads none.
StatColumns == <<"", "basic_salary", "bonus", "tax", "net_salary", "net_salary">>

StatLine(df, j) ==
    CASE j = 1 -> Line("Total Employees", Num(Len(df.rows)))
      [] j = 2 -> Line("Total Basic Salary", Format2(SumCol(df.rows, "basic_salary", Len(df.rows))))
      [] j = 3 -> Line("Total Bonus", Format2(SumCol(df.rows, "bonus", Len(df.rows))))
      [] j = 4 -> Line("Total Tax", Format2(SumCol(df.rows, "tax", Len(df.rows))))
      [] j = 5 -> Line("Total Net Salary", Format2(SumCol(df.rows, "net_salary", Len(df.rows))))
      [] j = 6 -> Line("Average Net Salary", Format2(Mean(df.rows, "net_salary")))

\* How many of the statistics lines can be computed: df[c] raises KeyError
\* on the first line whose column the frame has not.
RECURSIVE Computable(_, _)
Computable(df, j) ==
    IF j > StatLines THEN StatLines
    ELSE IF StatColumns[j] # "" /\ ~HasColumn(df, StatColumns[j]) THEN j - 1
    ELSE Computable(df, j + 1)

\* The first k lines of the statistics.
RECURSIVE Statistics(_, _)
Statistics(df, k) == IF k = 0 THEN <<>> ELSE Append(Statistics(df, k - 1), StatLine(df, k))

\* The prints that can raise: a print is reached only when the lines before
\* it were computed.
PrintPoints(df) == (0..(Computable(df, 1) + 1)) \cup {StatLines + 2}

\* failAt: the print that raises (OSError on a closed console).  0, one of
\* the prints before the statistics (lines 152-159); j in 1..StatLines, the
\* print of the j-th statistics line; StatLines + 1, the print of the closing
\* rule (line 166); StatLines + 2, none.  The method has no try: a KeyError
\* or an OSError escapes it, and the lines printed before it stay printed.
display_salary_summary ==
    LET df == df_employees
        k == Computable(df, 1)
    IN  /\ IF ~df.present
           THEN /\ Returns("display_salary_summary", RNone)
                /\ summary' = NoSummary
           ELSE \E lines \in {Statistics(df, k)}, failAt \in PrintPoints(df) :
                  LET printed == IF failAt = 0 THEN 0
                                 ELSE IF failAt - 1 < k THEN failAt - 1
                                 ELSE k
                  IN  /\ summary' = SubSeq(lines, 1, printed)
                      /\ Returns("display_salary_summary",
                                 IF k = StatLines /\ failAt = StatLines + 2 THEN RNone
                                 ELSE RRaise)
        /\ NoOutput("display_salary_summary")
        /\ UNCHANGED <<connection, df_employees, table, connOpen, nOpened, dirExists, files,
                       report, clock>>

---------------------------------------------------------------------------
(* export_complete_report *)

\* report_df['report_generated'] = ts
WithTimestamp(df, ts) ==
    [present |-> TRUE, columns |-> df.columns \o <<"report_generated">>,
     rows |-> [i \in DOMAIN df.rows |-> df.rows[i] @@ [report_generated |-> ts]]]

\* A faulty variant: the column is added to self.df_employees itself.
FrameStampedInPlace(df, ts) == WithTimestamp(df, ts)

\* self.df_employees after the export: the column was added to a copy.
FrameAfterExport(df, ts) == df

\* write_ok: to_csv raises nothing.  partial: the file to_csv raised on was
\* already created (and is empty).
export_complete_report(write_ok, partial) ==
    /\ IF ~df_employees.present
       THEN /\ Returns("export_complete_report", RFalse)
            /\ UNCHANGED <<df_employees, report>>
       ELSE /\ df_employees' = FrameAfterExport(df_employees, clock)
            /\ IF write_ok
               THEN /\ report' = [exists |-> TRUE,
                                  rows |-> CsvContent(report.rows,
                                               WithTimestamp(df_employees, clock).rows)]
                    /\ Returns("export_complete_report", RTrue)
               ELSE /\ report' = IF partial THEN [exists |-> TRUE, rows |-> <<>>] ELSE report
                    /\ Returns("export_complete_report", RFalse)
    /\ NoOutput("export_complete_report")
    /\ UNCHANGED <<connection, table, connOpen, nOpened, dirExists, files, clock>>

---------------------------------------------------------------------------
(* add_new_employee *)

\* cursor.execute and commit: the row is stored, or an exception.
InsertOutcomes == {"ok", "error"}

\* The INSERT runs on self.connection; the store assigns the next id.
add_new_employee(name, basic_salary, bonus_percentage, tax_percentage, o, q) ==
    /\ IF connection = NoConn THEN DoConnect(o) ELSE UNCHANGED <<connection, connOpen, nOpened>>
    /\ IF connection' = NoConn
       THEN /\ Returns("add_new_employee", RFalse)
            /\ UNCHANGED table
       ELSE IF QueryRuns(connection', connOpen', q)
       THEN /\ table' = Append(table, StoreRow(Len(table) + 1, name, basic_salary,
                                               bonus_percentage, tax_percentage))
            /\ Returns("add_new_employee", Ret("id", Len(table) + 1))
       ELSE /\ Returns("add_new_employee", RFalse)
            /\ UNCHANGED table
    /\ NoOutput("add_new_employee")
    /\ UNCHANGED <<df_employees, dirExists, files, report, clock>>

---------------------------------------------------------------------------
(* close_connection *)

\* The connections the server holds after self.connection.close(), which
\* runs only when self.connection is set.
OpenAfterClose(conn, open) == IF conn # NoConn THEN open \ {conn} ELSE open

close_connection ==
    /\ connOpen' = OpenAfterClose(connection, connOpen)
    /\ Returns("close_connection", RNone)
    /\ NoOutput("close_connection")
    /\ UNCHANGED <<connection, df_employees, table, nOpened, dirExists, files, report, clock>>

---------------------------------------------------------------------------
(* Any sequence of method calls on one object *)

\* The object after __init__, beside a table of rows drawn from profiles.
ObjectInit(profiles, rows) ==
    /\ connection = NoConn
    /\ df_employees = NoneDF
    /\ table \in UNION {Tables(n, profiles) : n \in 0..rows}
    /\ connOpen = {}
    /\ nOpened = 0
    /\ dirExists = FALSE
    /\ files = <<>>
    /\ report = NoReport
    /\ summary = NoSummary
    /\ clock = 0
    /\ last = NoCall
    /\ repeated = FALSE
    /\ written = <<>>
    /\ log = <<>>
    /\ nCalls = 0

Init ==
    /\ ObjectInit(ObjectProfiles, MaxRows)
    /\ pc = "object"

\* A second passes.
Tick ==
    /\ clock < MaxClock
    /\ clock' = clock + 1
    /\ UNCHANGED <<connection, df_employees, table, connOpen, nOpened, dirExists, files,
                   report, summary, last, repeated, written, pc, log, nCalls>>

CallConnect ==
    /\ \E o \in ConnectOutcomes : connect_database(o)
    /\ UNCHANGED <<pc, log>>

\* The outcome of the connect a method makes itself matters only when
\* self.connection is still None.
OwnConnectOutcomes == IF connection = NoConn THEN ConnectOutcomes ELSE {"ok"}

CallFetch ==
    /\ \E o \in OwnConnectOutcomes, q \in QueryOutcomes : fetch_employee_data(o, q)
    /\ UNCHANGED <<pc, log>>

CallCalculate ==
    /\ calculate_salary_components
    /\ UNCHANGED <<pc, log>>

\* The clock advances during the call only when it can.
TickPoints(n) == IF clock < MaxClock THEN 0..n ELSE {n}

\* os.makedirs runs (and may raise) only when the directory is missing.
FailPoints(n) == IF dirExists THEN 1..(n + 1) ELSE 0..(n + 1)

CallGenerate ==
    /\ \E failAt \in FailPoints(Len(df_employees.rows)),
          tickAt \in TickPoints(Len(df_employees.rows)) :
          \E partial \in IF failAt \in 1..Len(df_employees.rows) THEN BOOLEAN ELSE {FALSE} :
            generate_salary_slips(failAt, partial, tickAt)
    /\ UNCHANGED <<pc, log>>

CallDisplay ==
    /\ display_salary_summary
    /\ UNCHANGED <<pc, log>>

CallExport ==
    /\ \E write_ok \in BOOLEAN :
          \E partial \in IF write_ok THEN {FALSE} ELSE BOOLEAN :
            export_complete_report(write_ok, partial)
    /\ UNCHANGED <<pc, log>>

CallAdd ==
    /\ Len(table) < MaxRows
    /\ \E name \in Names, p \in ObjectProfiles, o \in OwnConnectOutcomes, q \in InsertOutcomes :
            add_new_employee(name, p[1], p[2], p[3], o, q)
    /\ UNCHANGED <<pc, log>>

CallClose ==
    /\ close_connection
    /\ UNCHANGED <<pc, log>>

\* One more call is made.
Counted ==
    /\ nCalls < MaxCalls
    /\ nCalls' = nCalls + 1

\* Spec: the methods of the object, called in any order.
Next ==
    \/ Tick
    \/ CallConnect /\ Counted
    \/ CallFetch /\ Counted
    \/ CallCalculate /\ Counted
    \/ CallGenerate /\ Counted
    \/ CallDisplay /\ Counted
    \/ CallExport /\ Counted
    \/ CallAdd /\ Counted
    \/ CallClose /\ Counted

Spec == Init /\ [][Next]_vars

\* ExportSpec: the export step, in any order and any number of times, on an
\* object that has connected, fetched and derived its record set.
ExportInit ==
    /\ table \in UNION {Tables(n, ObjectProfiles) : n \in 0..MaxEmp}
    /\ connection = 1
    /\ connOpen = {1}
    /\ nOpened = 1
    /\ df_employees = DerivedFrame(FetchedFrame(table))
    /\ dirExists = FALSE
    /\ files = <<>>
    /\ report = NoReport
    /\ summary = NoSummary
    /\ clock = 0
    /\ last = [op |-> "calculate_salary_components", ret |-> RDF]
    /\ repeated = FALSE
    /\ written = <<>>
    /\ log = <<>>
    /\ nCalls = 0
    /\ pc = "object"

ExportNext ==
    \/ Tick
    \/ CallGenerate /\ UNCHANGED nCalls
    \/ CallDisplay /\ UNCHANGED nCalls
    \/ CallExport /\ UNCHANGED nCalls

ExportSpec == ExportInit /\ [][ExportNext]_vars

---------------------------------------------------------------------------
(* main() *)

\* Where main() goes after each step.  printed: the print that follows the
\* call, when there is one, printed; otherwise it raised (OSError, on a closed
\* console) and the except clause of line 280 caught it.  A return inside the
\* try block goes to the finally clause.

\* A faulty variant: main() goes on to fetch after a connection failure.
AfterConnectNoReturn(r, printed) == "fetch"

\* Lines 235-237
AfterConnect(r, printed) ==
    IF r = RFalse THEN (IF printed THEN "finally" ELSE "except") ELSE "fetch"

\* A faulty variant: the return after a failed fetch leaves main() without the cleanup.
AfterFetchSkipsCleanup(r, printed) == IF r = RNone THEN "done" ELSE "calculate"

\* Lines 241-243
AfterFetch(r, printed) ==
    IF r = RNone THEN (IF printed THEN "finally" ELSE "except") ELSE "calculate"

\* A faulty variant: main() goes on to display after a failed calculation.
AfterCalculateNoReturn(r, printed) == "display"

\* Lines 247-249
AfterCalculate(r, printed) ==
    IF r = RNone THEN (IF printed THEN "finally" ELSE "except") ELSE "display"

\* Line 253: no print follows the call; what the method raised reaches the
\* except clause.
AfterDisplay(r) == IF r = RRaise THEN "except" ELSE "slips"

\* Lines 257-258: the print of line 258 runs after a True alone.
AfterSlips(r, printed) == IF r = RTrue /\ ~printed THEN "except" ELSE "export"

\* Lines 262-263: the print of line 263 runs after a True alone.
AfterExport(r, printed) == IF r = RTrue /\ ~printed THEN "except" ELSE "add"

\* Lines 273-278: the prints of lines 276-278 run whatever was returned.
AfterAdd(r, printed) == IF printed THEN "finally" ELSE "except"

\* The steps that begin with a print: lines 234, 240, 246, 252, 256, 261, 266.
Announced == {"connect", "fetch", "calculate", "display", "slips", "export", "add"}

\* The call just made, with the connection the object holds after it.
Logged ==
    /\ log' = Append(log, [op |-> last'.op, ret |-> last'.ret, conn |-> connection'])
    /\ UNCHANGED nCalls

MainInit ==
    /\ ObjectInit(Profiles, MaxEmp)
    /\ pc = "banner"

\* What a step of main() that calls no method leaves alone.
NoCallMade ==
    UNCHANGED <<connection, df_employees, table, connOpen, nOpened, dirExists, files,
                report, summary, clock, last, repeated, written, log, nCalls>>

\* Lines 219-230: the banner and the constructor.  The prints are outside the
\* try block: when one raises, main() ends there.
MainBanner ==
    /\ pc = "banner"
    /\ \E printed \in BOOLEAN : pc' = IF printed THEN "connect" ELSE "done"
    /\ NoCallMade

\* The print a step begins with raises: the method of the step is not called.
MainPrintRaises ==
    /\ pc \in Announced
    /\ pc' = "except"
    /\ NoCallMade

\* Lines 280-281: the except clause logs the exception.
MainExcept ==
    /\ pc = "except"
    /\ pc' = "finally"
    /\ NoCallMade

MainConnect ==
    /\ pc = "connect"
    /\ \E o \in ConnectOutcomes : connect_database(o)
    /\ Logged
    /\ \E printed \in BOOLEAN : pc' = AfterConnect(last'.ret, printed)

MainFetch ==
    /\ pc = "fetch"
    /\ \E o \in OwnConnectOutcomes, q \in QueryOutcomes : fetch_employee_data(o, q)
    /\ Logged
    /\ \E printed \in BOOLEAN : pc' = AfterFetch(last'.ret, printed)

MainCalculate ==
    /\ pc = "calculate"
    /\ calculate_salary_components
    /\ Logged
    /\ \E printed \in BOOLEAN : pc' = AfterCalculate(last'.ret, printed)

MainDisplay ==
    /\ pc = "display"
    /\ display_salary_summary
    /\ Logged
    /\ pc' = AfterDisplay(last'.ret)

MainSlips ==
    /\ pc = "slips"
    /\ \E failAt \in FailPoints(Len(df_employees.rows)),
          tickAt \in TickPoints(Len(df_employees.rows)) :
          \E partial \in IF failAt \in 1..Len(df_employees.rows) THEN BOOLEAN ELSE {FALSE} :
            generate_salary_slips(failAt, partial, tickAt)
    /\ Logged
    /\ \E printed \in BOOLEAN : pc' = AfterSlips(last'.ret, printed)

MainExport ==
    /\ pc = "export"
    /\ \E write_ok \in BOOLEAN :
          \E partial \in IF write_ok THEN {FALSE} ELSE BOOLEAN :
            export_complete_report(write_ok, partial)
    /\ Logged
    /\ \E printed \in BOOLEAN : pc' = AfterExport(last'.ret, printed)

\* Lines 267-272: the employee main() adds.
MainAdd ==
    /\ pc = "add"
    /\ \E o \in OwnConnectOutcomes, q \in InsertOutcomes :
            add_new_employee("Alex Johnson", 6200000, 14, 19, o, q)
    /\ Logged
    /\ \E printed \in BOOLEAN : pc' = AfterAdd(last'.ret, printed)

MainFinally ==
    /\ pc = "finally"
    /\ close_connection
    /\ Logged
    /\ pc' = "done"

\* Time passes while main() runs.
MainTick ==
    /\ pc # "done"
    /\ Tick

MainNext ==
    \/ MainTick
    \/ MainBanner
    \/ MainPrintRaises
    \/ MainExcept
    \/ MainConnect
    \/ MainFetch
    \/ MainCalculate
    \/ MainDisplay
    \/ MainSlips
    \/ MainExport
    \/ MainAdd
    \/ MainFinally

MainSpec == MainInit /\ [][MainNext]_vars

---------------------------------------------------------------------------
(* Properties *)

Rows == df_employees.rows

IsCall(op, r) == last.op = op /\ last.ret = r

\* The name of the slip of an employee id.
NameOfId(id) == <<"salary_slip_", Str(id), ".csv">>

\* Two files hold the same rows, the column col left aside.
SameButColumn(a, b, col) ==
    /\ Len(a) = Len(b)
    /\ \A i \in DOMAIN a :
        /\ DOMAIN a[i] = DOMAIN b[i]
        /\ \A c \in DOMAIN a[i] \ {col} : a[i][c] = b[i][c]

\* c cents is x / 10000 rounded to the cent (x in hundredths of a cent): no
\* number of cents is nearer.
NearestCent(c, x) == 2 * (100 * c - x) <= 100 /\ 2 * (x - 100 * c) <= 100

\* C1: after calculate_salary_components succeeds, every record satisfies
\* bonus = round(basic_salary * bonus_percentage / 100, 2),
\* tax = round(basic_salary * tax_percentage / 100, 2) and
\* net_salary = round(basic_salary + bonus - tax, 2), bonus and tax in the
\* last equation being the record's own stored bonus and tax.
C1_StoredFieldsSatisfyEquations ==
    IsCall("calculate_salary_components", RDF) =>
        \A i \in DOMAIN Rows :
            LET r == Rows[i]
                basic == Format2(r.basic_salary).v
                bonus == Format2(r.bonus).v
                tax == Format2(r.tax).v
                net == Format2(r.net_salary).v
            IN  /\ r.bonus = FromRatio(bonus, 100)
                /\ r.tax = FromRatio(tax, 100)
                /\ r.net_salary = FromRatio(net, 100)
                /\ NearestCent(bonus, basic * (Format2(r.bonus_percentage).v \div 100))
                /\ NearestCent(tax, basic * (Format2(r.tax_percentage).v \div 100))
                /\ net = basic + bonus - tax

\* In a run of main(): the calls made so far.
Called(op) == \E i \in DOMAIN log : log[i].op = op

CalledWith(op, r) == \E i \in DOMAIN log : log[i].op = op /\ log[i].ret = r

StoreUnreachable ==
    \/ CalledWith("connect_database", RFalse)
    \/ CalledWith("fetch_employee_data", RNone)

\* C2: in a run of main(), if connect_database fails or fetch_employee_data
\* returns None, then generate_salary_slips, export_complete_report and
\* add_new_employee are never called: no slip file, no aggregate file and no
\* insert.
C2_UnreachableStoreNoOutput ==
    StoreUnreachable =>
        /\ ~Called("generate_salary_slips")
        /\ ~Called("export_complete_report")
        /\ ~Called("add_new_employee")
        /\ DOMAIN files = {}
        /\ ~dirExists
        /\ ~report.exists

C2_Witness ==
    /\ pc = "done"
    /\ CalledWith("fetch_employee_data", RNone)
    /\ Len(table) >= 1

\* C3: in a run of main(), at most one connection is ever opened; every call
\* that holds a connection (connect_database, fetch_employee_data,
\* add_new_employee) holds that same one; and when main() has ended, on
\* whatever path, no connection is open.
C3_OneConnectionClosedAtEnd ==
    /\ nOpened <= 1
    /\ \A i, j \in DOMAIN log :
        (log[i].conn # NoConn /\ log[j].conn # NoConn) => log[i].conn = log[j].conn
    /\ pc = "done" => connOpen = {}

C3_Witness ==
    /\ pc = "done"
    /\ CalledWith("fetch_employee_data", RDF)
    /\ Called("add_new_employee")
    /\ nOpened = 1
    /\ connOpen = {}

\* A step of the sequence reported failure.
Failed(e) ==
    \/ e.op = "connect_database" /\ e.ret = RFalse
    \/ e.op = "fetch_employee_data" /\ e.ret = RNone
    \/ e.op = "calculate_salary_components" /\ e.ret = RNone
    \/ e.op = "generate_salary_slips" /\ e.ret = RFalse
    \/ e.op = "export_complete_report" /\ e.ret = RFalse
    \/ e.op = "add_new_employee" /\ e.ret = RFalse

\* A failure main() returns on.
FailedFatally(e) ==
    \/ e.op = "connect_database" /\ e.ret = RFalse
    \/ e.op = "fetch_employee_data" /\ e.ret = RNone
    \/ e.op = "calculate_salary_components" /\ e.ret = RNone

\* C4, as claimed: in a run of main(), once any step (connect, fetch,
\* calculate, slips, export, insert) has reported failure, no later step of
\* the sequence is performed (the cleanup alone follows).
C4_AnyFailureAborts ==
    \A i, j \in DOMAIN log :
        (i < j /\ Failed(log[i])) => log[j].op = "close_connection"

\* The parts of C4, amended: the failures main() returns on, and those it
\* does not act on.
C4_FatalAborts ==
    \A i, j \in DOMAIN log :
        (i < j /\ FailedFatally(log[i])) => log[j].op = "close_connection"

C4_ReportedGoesOnStep ==
    /\ (/\ Len(log') > Len(log)
        /\ last'.op = "generate_salary_slips"
        /\ last'.ret = RFalse) => pc' = "export"
    /\ (/\ Len(log') > Len(log)
        /\ last'.op = "export_complete_report"
        /\ last'.ret = RFalse) => pc' = "add"

\* C4, amended: a failure of connect_database, fetch_employee_data or
\* calculate_salary_components aborts the rest of the run (the cleanup alone
\* follows); a failure of generate_salary_slips or export_complete_report is
\* reported by its return value and does not abort it: after
\* generate_salary_slips returned False main() is at step 6 (line 261), and
\* after export_complete_report returned False at step 7 (line 266).
C4_FatalFailureAborts == [](C4_FatalAborts) /\ [][C4_ReportedGoesOnStep]_vars

C4_Witness ==
    /\ pc = "done"
    /\ CalledWith("calculate_salary_components", RNone)
    /\ Len(log) = 4

\* C5: when generate_salary_slips succeeds on a record set of pairwise
\* distinct ids, it has written exactly one file per record, the file of a
\* record being named by its employee_id alone and holding that record's row,
\* and no file of the directory holds the row of another employee than the
\* one its name carries.
C5_OneSlipPerRecord ==
    (/\ IsCall("generate_salary_slips", RTrue)
     /\ \A i, j \in DOMAIN Rows : i # j => Rows[i].employee_id # Rows[j].employee_id)
    =>
        /\ Len(written) = Len(Rows)
        /\ \A i, j \in DOMAIN written : i # j => written[i] # written[j]
        /\ \A i \in DOMAIN Rows :
            /\ written[i] = NameOfId(Rows[i].employee_id)
            /\ written[i] \in DOMAIN files
            /\ Len(files[written[i]]) = 1
            /\ files[written[i]][1].Employee_ID = Rows[i].employee_id
            /\ files[written[i]][1].Net_Salary = Rows[i].net_salary
        /\ \A nm \in DOMAIN files : \A k \in DOMAIN files[nm] :
            nm = NameOfId(files[nm][k].Employee_ID)

C5_Witness ==
    /\ IsCall("generate_salary_slips", RTrue)
    /\ Len(Rows) >= 2
    /\ Cardinality(DOMAIN files) = Len(Rows)

\* The steps of C6: a call that repeats the successful call before it.
C6_SlipsStep ==
    (/\ IsCall("generate_salary_slips", RTrue)
     /\ last' = last
     /\ df_employees' = df_employees)
    =>
        /\ DOMAIN files' = DOMAIN files
        /\ \A nm \in DOMAIN files : SameButColumn(files'[nm], files[nm], "Generated_Date")

C6_ReportStep ==
    (/\ IsCall("export_complete_report", RTrue)
     /\ last' = last
     /\ df_employees' = df_employees)
    =>
        /\ report'.exists
        /\ SameButColumn(report'.rows, report.rows, "report_generated")

\* C6: a second successful generate_salary_slips right after a successful
\* one, on the same record set, leaves the same set of slip files, each
\* holding the same rows but for Generated_Date; and likewise a second
\* successful export_complete_report leaves the report with the same rows but
\* for report_generated.
C6_ExportIdempotent == [][C6_SlipsStep /\ C6_ReportStep]_vars

C6_Witness ==
    /\ IsCall("generate_salary_slips", RTrue)
    /\ repeated
    /\ Len(Rows) >= 2
    /\ report.exists
    /\ \E nm \in DOMAIN files : files[nm][1].Generated_Date = MaxClock

\* C7: for an empty derived record set, display_salary_summary prints a
\* count of 0 and sums of 0.00, and its average net salary is a defined
\* value (a number), printed without an error.
C7_EmptySummaryDefined ==
    (/\ IsCall("display_salary_summary", RNone)
     /\ df_employees.present
     /\ HasDerivedColumns(df_employees)
     /\ Len(Rows) = 0)
    =>
        /\ Len(summary) = 6
        /\ \A i \in 1..5 : summary[i].value = Num(0)
        /\ summary[1].label = "Total Employees"
        /\ summary[6].label = "Average Net Salary"
        /\ ~summary[6].value.nan

\* The two parts of C8: the report after the call, and the frame across it.
C8_ReportMatchesFrame ==
    IsCall("export_complete_report", RTrue) =>
        /\ report.exists
        /\ Len(report.rows) = Len(Rows)
        /\ \A i \in DOMAIN Rows :
            /\ DOMAIN report.rows[i] = DOMAIN Rows[i] \cup {"report_generated"}
            /\ \A c \in DOMAIN Rows[i] : report.rows[i][c] = Rows[i][c]
        /\ ~HasColumn(df_employees, "report_generated")
        /\ \A i \in DOMAIN Rows : "report_generated" \notin DOMAIN Rows[i]

C8_FrameUntouchedStep ==
    last'.op = "export_complete_report" => df_employees' = df_employees

\* C8: when export_complete_report succeeds, the report holds one row per
\* record of the record set, in the same order, each the record's own fields
\* and a report_generated field; and the call leaves self.df_employees as it
\* was, without a report_generated column.
C8_ExportRowsAndFrame == [](C8_ReportMatchesFrame) /\ [][C8_FrameUntouchedStep]_vars

C8_Witness ==
    /\ IsCall("export_complete_report", RTrue)
    /\ Len(Rows) >= 2
    /\ Len(report.rows) = Len(Rows)

\* The parts of C9: the return value, the slips written, the slips not written.
C9_FailureReturnsFalse ==
    (/\ last.op = "generate_salary_slips"
     /\ df_employees.present
     /\ Len(written) < Len(Rows))
    => last.ret = RFalse

C9_EarlierSlipsOnDisk ==
    IsCall("generate_salary_slips", RFalse) =>
        \A i \in DOMAIN written :
            /\ i < Len(Rows)
            /\ written[i] = NameOfId(Rows[i].employee_id)
            /\ written[i] \in DOMAIN files
            /\ Len(files[written[i]]) = 1
            /\ files[written[i]][1] = SlipRow(Rows[i], files[written[i]][1].Generated_Date)

C9_LaterSlipsUntouchedStep ==
    (/\ last'.op = "generate_salary_slips"
     /\ last'.ret = RFalse
     /\ df_employees'.present)
    =>
        \A j \in (Len(written') + 2)..Len(df_employees'.rows) :
            LET nm == NameOfId(df_employees'.rows[j].employee_id)
            IN  /\ nm \in DOMAIN files' <=> nm \in DOMAIN files
                /\ nm \in DOMAIN files => files'[nm] = files[nm]

\* C9: when generate_salary_slips fails while writing the slip of the k-th
\* record, it returns False; the slips of records 1..k-1, which it wrote, are
\* on disk, each holding its record's row; and the slips of the records after
\* the k-th are as they were before the call.  k - 1 is the number of slips
\* the call wrote.
C9_PartialSlipsKept ==
    /\ [](C9_FailureReturnsFalse /\ C9_EarlierSlipsOnDisk)
    /\ [][C9_LaterSlipsUntouchedStep]_vars

\* The call failed on the second record of three or more: the first slip is
\* written, the third is not.
C9_Witness ==
    /\ IsCall("generate_salary_slips", RFalse)
    /\ Len(Rows) >= 3
    /\ Len(written) = 1
    /\ NameOfId(Rows[1].employee_id) \in DOMAIN files
    /\ NameOfId(Rows[3].employee_id) \notin DOMAIN files

\* The parts of C10: the fetch, the call on rows not derived, the call on no rows.
C10_FetchReplaces ==
    IsCall("fetch_employee_data", RDF) =>
        /\ df_employees.present
        /\ df_employees.columns = RawColumns
        /\ \A c \in Range(DerivedColumns) : ~HasColumn(df_employees, c)
        /\ Len(Rows) = Len(table)
        /\ \A i \in DOMAIN Rows :
            /\ DOMAIN Rows[i] = Range(RawColumns)
            /\ Rows[i].employee_id = table[i].employee_id
            /\ Rows[i].name = table[i].name
            /\ Format2(Rows[i].basic_salary) = Num(table[i].basic_salary)
            /\ Format2(Rows[i].bonus_percentage) = Num(100 * table[i].bonus_percentage)
            /\ Format2(Rows[i].tax_percentage) = Num(100 * table[i].tax_percentage)

C10_NotDerivedNoSlip ==
    (/\ last.op = "generate_salary_slips"
     /\ df_employees.present
     /\ ~HasDerivedColumns(df_employees)
     /\ Len(Rows) >= 1)
    =>
        /\ last.ret = RFalse
        /\ written = <<>>

C10_NeverFetchedNoDirectory ==
    /\ ~df_employees.present => (~dirExists /\ DOMAIN files = {})
    /\ (last.op = "generate_salary_slips" /\ ~df_employees.present) =>
            (last.ret = RFalse /\ written = <<>>)

C10_NoSlipStep ==
    /\ (/\ last'.op = "generate_salary_slips"
        /\ df_employees'.present
        /\ ~HasDerivedColumns(df_employees')
        /\ Len(df_employees'.rows) >= 1)
       => files' = files
    /\ (/\ last'.op = "generate_salary_slips"
        /\ ~df_employees'.present)
       => (files' = files /\ dirExists' = dirExists)

\* C10: a successful fetch_employee_data leaves a record set of the rows of
\* the table with the fetched columns alone (what was derived before is
\* gone); generate_salary_slips on a record set that is not empty and not
\* derived returns False and writes no slip file; and on an object that never
\* fetched a record set it returns False and the output directory is not
\* created.
C10_FetchedNotDerived ==
    /\ [](C10_FetchReplaces /\ C10_NotDerivedNoSlip /\ C10_NeverFetchedNoDirectory)
    /\ [][C10_NoSlipStep]_vars

\* generate_salary_slips was called on rows fetched anew and not derived,
\* after slips of an earlier, derived record set were written.
C10_Witness ==
    /\ IsCall("generate_salary_slips", RFalse)
    /\ df_employees.present
    /\ ~HasDerivedColumns(df_employees)
    /\ Len(Rows) >= 1
    /\ DOMAIN files # {}
    /\ written = <<>>

===========================================================================
